---- MODULE Spec2Model ----
(***************************************************************************)
(* A model of the IND photography bot (src/main.py): the score ledger kept *)
(* in scores.json, the on_message scoring handler, the ind.* commands and  *)
(* the asyncio event loop that interleaves them at their await points.     *)
(*                                                                         *)
(* Time is counted in ticks, TicksPerDay ticks to a UTC calendar day.  A   *)
(* datetime is the tick count, its ISO string the pair (date, time of      *)
(* day), a date string the day number (ISO dates of four-digit years order *)
(* as strings the way their day numbers order as integers).  A score is an *)
(* integer standing for the float composition_score returns; an average is *)
(* kept as the exact fraction sum/len and compared by cross-multiplying.   *)
(* The clock never runs backwards.                                         *)
(***************************************************************************)
EXTENDS Integers, Sequences, FiniteSets, TLC

\* ---------------------------------------------------------------- bounds
MaxTasks == 2        \* coroutines alive at once in the concurrent specification
MaxClock == 2        \* last tick of the concurrent specification
TicksPerDay == 2     \* clock resolution
SeqMaxDay == 8       \* last day of the sequential specification
MaxBoots == 1        \* restarts of the process in the crash specification

\* ------------------------------------------------------ program constants
PHOTOGRAPHY_CHANNEL_ID == "1387102048209866932"
OTHER_CHANNEL_ID == "0"
WEEK_DAYS == 7
TOP_N == 5
TOP_IMAGES == 3

VARIABLES
    scores_file,         \* scores.json: [state, db]
    processed_messages,  \* the module-level set of message ids
    tasks,               \* live coroutines: task id -> local variables
    running,             \* the coroutine holding the event loop, or NoTask
    clock,               \* datetime.utcnow(), in ticks
    image,               \* the image composition_score was last given, and its score
    boots,               \* history: restarts of the process so far
    scored,              \* history: successful score_image calls per message id, this lifetime
    recorded,            \* history: events saved per message id, this lifetime
    skipped,             \* history: message ids a delivery of which returned at line 106
    live                 \* history: events saved per user since that user's last reset

vars == <<scores_file, processed_messages, tasks, running, clock, image,
          boots, scored, recorded, skipped, live>>

\* ------------------------------------------------------------- messages
\* The messages the gateway delivers: 0 is posted outside the photography
\* channel by author 2; 1 and 2 are photos of author 1.  Users 3..7 post
\* nothing here: they are the users of the ledger a sequential run may start
\* from.
MsgIds == {0, 1, 2}
AuthorIds == {1, 2}
SeedIds == {3, 4, 5, 6, 7}
UserIds == AuthorIds \cup SeedIds

Msg(m) ==
    [id |-> m,
     author |-> IF m = 0 THEN 2 ELSE 1,
     bot |-> FALSE,
     channel |-> IF m = 0 THEN OTHER_CHANNEL_ID ELSE PHOTOGRAPHY_CHANNEL_ID,
     image |-> m # 0,
     score |-> IF m = 2 THEN 4 ELSE 8]

extract_image_url(m) == IF Msg(m).image THEN "url" ELSE "None"

\* lines 82-87: the score of the image of message m (composition_score is a
\* function of the image)
score_image(m) == Msg(m).score

str(id) == ToString(id)

\* ----------------------------------------------------------------- time
utcnow == clock
isoformat(t) == [date |-> t \div TicksPerDay, time |-> t % TicksPerDay]
fromisoformat(s) == s.date * TicksPerDay + s.time
date_isoformat(t) == t \div TicksPerDay
timedelta_days(n) == n * TicksPerDay

\* ---------------------------------------------------------------- image
\* no image has been decoded
NoImage == [w |-> 0, h |-> 0, arr |-> <<>>, score |-> 0, done |-> FALSE]

\* --------------------------------------------------------------- ledger
EmptyDb == [images |-> <<>>, users |-> <<>>]

\* lines 42-45; json.load raises on a file that holds no complete document
load_scores ==
    IF scores_file.state = "ok" THEN scores_file.db ELSE EmptyDb

LoadRaises == scores_file.state = "torn"

\* line 48, when json.dump has returned
save_scores(db) == [state |-> "ok", db |-> db]

\* line 48, open(SCORES_FILE, "w"): the file is truncated before json.dump writes
truncated == [state |-> "torn", db |-> EmptyDb]

RECURSIVE SumSeq(_)
SumSeq(s) == IF s = <<>> THEN 0 ELSE Head(s) + SumSeq(Tail(s))

HasUser(db, uid) == \E i \in 1..Len(db.users) : db.users[i].uid = uid
UserIdx(db, uid) == CHOOSE i \in 1..Len(db.users) : db.users[i].uid = uid
UserRec(db, uid) == db.users[UserIdx(db, uid)]

InSeq(x, s) == \E i \in 1..Len(s) : s[i] = x

\* faulty variant: the event is put in front of images
AppendEventInFront(db, uid, score, now) ==
    LET images1 == <<[user |-> uid, score |-> score, ts |-> isoformat(now)]>> \o db.images
        users1 == IF HasUser(db, uid) THEN db.users
                  ELSE Append(db.users, [uid |-> uid, scores |-> <<>>, dates |-> <<>>])
        i == CHOOSE j \in 1..Len(users1) : users1[j].uid = uid
    IN [images |-> images1,
        users |-> [users1 EXCEPT ![i].scores = Append(@, score)]]

\* lines 119-126: the event, setdefault, the score
AppendEvent(db, uid, score, now) ==
    LET images1 == Append(db.images, [user |-> uid, score |-> score, ts |-> isoformat(now)])
        users1 == IF HasUser(db, uid) THEN db.users
                  ELSE Append(db.users, [uid |-> uid, scores |-> <<>>, dates |-> <<>>])
        i == CHOOSE j \in 1..Len(users1) : users1[j].uid = uid
    IN [images |-> images1,
        users |-> [users1 EXCEPT ![i].scores = Append(@, score)]]

\* faulty variant: lines 128-129 left out
AddDateNever(db, uid, now) == db

\* lines 127-129: the date, added once
AddDate(db, uid, now) ==
    LET today == date_isoformat(now)
        i == UserIdx(db, uid)
    IN IF InSeq(today, db.users[i].dates) THEN db
       ELSE [db EXCEPT !.users[i].dates = Append(@, today)]

RemoveAt(s, i) == SubSeq(s, 1, i - 1) \o SubSeq(s, i + 1, Len(s))

\* faulty variant: the reset drops the whole ledger
ResetDbClearsAll(db, uid) == EmptyDb

\* faulty variant: line 250 left out
ResetDbKeepsImages(db, uid) ==
    [images |-> db.images,
     users |-> RemoveAt(db.users, UserIdx(db, uid))]

\* faulty variant: line 249 left out
ResetDbKeepsUser(db, uid) ==
    [images |-> SelectSeq(db.images, LAMBDA img : img.user # uid),
     users |-> db.users]

\* lines 249-250: del db["users"][uid]; the images of the others
ResetDb(db, uid) ==
    [images |-> SelectSeq(db.images, LAMBDA img : img.user # uid),
     users |-> RemoveAt(db.users, UserIdx(db, uid))]

\* The ledger a sequential run may find on disk: users 3..7 have each posted
\* one photo of score 6 at tick 0 of an earlier process lifetime.
RECURSIVE Ingest(_, _)
Ingest(db, us) ==
    IF us = <<>> THEN db
    ELSE Ingest(AddDate(AppendEvent(db, str(Head(us)), 6, 0), str(Head(us)), 0), Tail(us))

SeedDb == Ingest(EmptyDb, <<3, 4, 5, 6, 7>>)

\* ---------------------------------------------------------------- tasks
NoTask == <<"none", 0, 0>>
NoOut == [kind |-> "", num |-> 0, den |-> 0, pos |-> 0, board |-> <<>>]
NewTask(pc) == [pc |-> pc, score |-> 0, db |-> EmptyDb, now |-> 0, out |-> NoOut]

MsgTask(m, n) == <<"msg", m, n>>
\* the coroutine of a new delivery of m: the first free slot
FreshMsgTask(m) == MsgTask(m, CHOOSE n \in 1..(Cardinality(DOMAIN tasks) + 1) :
    /\ MsgTask(m, n) \notin DOMAIN tasks
    /\ \A k \in 1..(n - 1) : MsgTask(m, k) \in DOMAIN tasks)
CmdTask(cmd, u) == <<cmd, u, 0>>

Live == DOMAIN tasks
MsgTasks == {t \in Live : t[1] = "msg"}
ResetTasks == {t \in Live : t[1] = "reset"}

\* A coroutine takes its next step when it holds the loop or the loop is idle.
Scheduled(t) == running \in {t, NoTask}

Spawn(t, st) == [x \in Live \cup {t} |-> IF x = t THEN st ELSE tasks[x]]
Finish(t) == [x \in Live \ {t} |-> tasks[x]]

hist == <<boots, scored, recorded, skipped, live>>

Init ==
    /\ scores_file = [state |-> "absent", db |-> EmptyDb]
    /\ processed_messages = {}
    /\ tasks = [x \in {} |-> NewTask("")]
    /\ running = NoTask
    /\ clock = 0
    /\ image = NoImage
    /\ boots = 0
    /\ scored = [m \in MsgIds |-> 0]
    /\ recorded = [m \in MsgIds |-> 0]
    /\ skipped = {}
    /\ live = [u \in UserIds |-> 0]

\* ----------------------------------------------------- composition_score
\* A decoded image is its width, its height and its edge-energy map arr, a
\* function of the pixels <<x, y>> (x in 0..w-1, y in 0..h-1) giving the
\* energy of each in whole units.  A score is kept in units of 1/SCORE_UNIT,
\* rounded up to the next unit.
MaxSide == 3         \* width and height of an image, in pixels
MaxLit == 2          \* pixels of an image with a non-zero edge energy
MaxEnergy == 2       \* edge energy of a pixel
SCORE_UNIT == 100

Pixels(w, h) == (0..(w - 1)) \X (0..(h - 1))

\* the sum over the pixels P of arr (k = 0), arr * xs (k = 1) or arr * ys (k = 2)
RECURSIVE WeightedSum(_, _, _)
WeightedSum(arr, P, k) ==
    IF P = {} THEN 0
    ELSE LET p == CHOOSE q \in P : TRUE
         IN arr[p] * (IF k = 0 THEN 1 ELSE p[k]) + WeightedSum(arr, P \ {p}, k)

\* line 55
total(img) == WeightedSum(img.arr, DOMAIN img.arr, 0)

\* lines 58-61: the square of the distance from the centroid
\* (cx, cy) = (sum(arr * xs) / total, sum(arr * ys) / total) to the point
\* (kx * w / 3, ky * h / 3), times (3 * total)^2
Dist2(img, kx, ky) ==
    LET dx == 3 * WeightedSum(img.arr, DOMAIN img.arr, 1) - kx * img.w * total(img)
        dy == 3 * WeightedSum(img.arr, DOMAIN img.arr, 2) - ky * img.h * total(img)
    IN dx * dx + dy * dy

\* lines 60-62: the least of the four distances, squared and scaled as Dist2
dmin2(img) ==
    LET dists == {Dist2(img, kx, ky) : kx \in {1, 2}, ky \in {1, 2}}
    IN CHOOSE d \in dists : \A e \in dists : d <= e

\* line 63: hypot(w / 3, h / 3), squared and scaled as Dist2
maxd2(img) == (img.w * img.w + img.h * img.h) * total(img) * total(img)

\* the integer part of the square root of n, or cap when that is smaller
FloorSqrt(n, cap) ==
    CHOOSE r \in 0..cap : r * r <= n /\ (r = cap \/ (r + 1) * (r + 1) > n)

\* line 64: dmin / maxd, in units of 1/SCORE_UNIT
ratio(img) ==
    FloorSqrt((dmin2(img) * SCORE_UNIT * SCORE_UNIT) \div maxd2(img), 2 * SCORE_UNIT)

Min(a, b) == IF a < b THEN a ELSE b

\* faulty variant: the "1 -" of line 64 left out
ScoreNotInverted(img) ==
    IF total(img) = 0 THEN 5 * SCORE_UNIT
    ELSE Min(ratio(img), SCORE_UNIT) * 10

\* lines 55-64
composition_score(img) ==
    IF total(img) = 0 THEN 5 * SCORE_UNIT
    ELSE (SCORE_UNIT - Min(ratio(img), SCORE_UNIT)) * 10

\* the images of at most MaxSide by MaxSide pixels in which at most MaxLit
\* pixels have an energy of 1..MaxEnergy and the others none
LitImage(w, h, lit, e) ==
    [w |-> w, h |-> h,
     arr |-> [p \in Pixels(w, h) |-> IF p \in lit THEN e[p] ELSE 0],
     score |-> 0, done |-> FALSE]

\* line 86: an image is decoded
Decode ==
    /\ image = NoImage
    /\ \E w \in 1..MaxSide, h \in 1..MaxSide :
          \E lit \in {L \in SUBSET Pixels(w, h) : Cardinality(L) <= MaxLit} :
              \E e \in [lit -> 1..MaxEnergy] :
                  image' = LitImage(w, h, lit, e)
    /\ UNCHANGED <<scores_file, processed_messages, tasks, running, clock, hist>>

\* line 87: the decoded image is handed to composition_score
ComposeScore ==
    /\ image # NoImage
    /\ ~image.done
    /\ image' = [image EXCEPT !.score = composition_score(image), !.done = TRUE]
    /\ UNCHANGED <<scores_file, processed_messages, tasks, running, clock, hist>>

\* ------------------------------------------------------------ on_message
\* lines 95-100: a delivery starts a coroutine that runs to process_commands
on_message(m, cap) ==
    /\ running = NoTask
    /\ Cardinality(Live) < cap
    /\ ~Msg(m).bot
    /\ tasks' = Spawn(FreshMsgTask(m), NewTask("commands"))
    /\ UNCHANGED <<scores_file, processed_messages, running, clock, image, hist>>

\* faulty variant: an await between the membership test and the insertion
AfterCheckYields(t) == NoTask

\* line 105 -> line 110: no await between the membership test and the insertion
AfterCheck(t) == t

\* lines 102-109: the three early returns
Gate(t) ==
    /\ t \in MsgTasks
    /\ tasks[t].pc = "commands"
    /\ Scheduled(t)
    /\ IF \/ Msg(t[2]).channel # PHOTOGRAPHY_CHANNEL_ID
          \/ t[2] \in processed_messages
          \/ extract_image_url(t[2]) = "None"
       THEN tasks' = Finish(t) /\ running' = NoTask
       ELSE tasks' = [tasks EXCEPT ![t].pc = "add"] /\ running' = AfterCheck(t)
    /\ skipped' = IF Msg(t[2]).channel = PHOTOGRAPHY_CHANNEL_ID /\ t[2] \in processed_messages
                  THEN skipped \cup {t[2]} ELSE skipped
    /\ UNCHANGED <<scores_file, processed_messages, clock, image, boots, scored, recorded, live>>

\* faulty variant: line 110 left out
AddProcessedForgets(t) ==
    /\ t \in MsgTasks
    /\ tasks[t].pc = "add"
    /\ Scheduled(t)
    /\ tasks' = [tasks EXCEPT ![t].pc = "reply1"]
    /\ running' = NoTask
    /\ UNCHANGED <<scores_file, processed_messages, clock, image, hist>>

\* lines 110-111: the insertion, then the first reply is awaited
AddProcessed(t) ==
    /\ t \in MsgTasks
    /\ tasks[t].pc = "add"
    /\ Scheduled(t)
    /\ processed_messages' = processed_messages \cup {t[2]}
    /\ tasks' = [tasks EXCEPT ![t].pc = "reply1"]
    /\ running' = NoTask
    /\ UNCHANGED <<scores_file, clock, image, hist>>

\* lines 111-114: the reply is sent; typing starts and score_image is awaited
Replied(t) ==
    /\ t \in MsgTasks
    /\ tasks[t].pc = "reply1"
    /\ Scheduled(t)
    /\ tasks' = [tasks EXCEPT ![t].pc = "scoring"]
    /\ running' = NoTask
    /\ UNCHANGED <<scores_file, processed_messages, clock, image, hist>>

\* line 114: score_image returns a score; the coroutine runs on from line 118
ScoreOk(t) ==
    /\ t \in MsgTasks
    /\ tasks[t].pc = "scoring"
    /\ Scheduled(t)
    /\ tasks' = [tasks EXCEPT ![t].pc = "load", ![t].score = score_image(t[2])]
    /\ running' = t
    /\ scored' = [scored EXCEPT ![t[2]] = @ + 1]
    /\ UNCHANGED <<scores_file, processed_messages, clock, image, boots, recorded, skipped, live>>

\* faulty variant: the return of line 117 left out, the handler runs on with score 0
ScoreFailFallsThrough(t) ==
    /\ t \in MsgTasks
    /\ tasks[t].pc = "scoring"
    /\ Scheduled(t)
    /\ tasks' = [tasks EXCEPT ![t].pc = "load"]
    /\ running' = t
    /\ UNCHANGED <<scores_file, processed_messages, clock, image, hist>>

\* faulty variant: a failed scoring takes the id out of processed_messages
ScoreFailForgets(t) ==
    /\ t \in MsgTasks
    /\ tasks[t].pc = "scoring"
    /\ Scheduled(t)
    /\ tasks' = [tasks EXCEPT ![t].pc = "errreply", ![t].out = [NoOut EXCEPT !.kind = "error"]]
    /\ processed_messages' = processed_messages \ {t[2]}
    /\ running' = NoTask
    /\ UNCHANGED <<scores_file, clock, image, hist>>

\* lines 115-117: score_image raised; the error reply is awaited, then return
ScoreFail(t) ==
    /\ t \in MsgTasks
    /\ tasks[t].pc = "scoring"
    /\ Scheduled(t)
    /\ tasks' = [tasks EXCEPT ![t].pc = "errreply", ![t].out = [NoOut EXCEPT !.kind = "error"]]
    /\ running' = NoTask
    /\ UNCHANGED <<scores_file, processed_messages, clock, image, hist>>

\* faulty variant: an await between load_scores and save_scores
AfterLoadYields(t) == NoTask

\* line 118 -> line 130, line 247 -> line 251: no await between load_scores
\* and save_scores
AfterLoad(t) == t

\* line 118
Load(t) ==
    /\ t \in MsgTasks
    /\ tasks[t].pc = "load"
    /\ Scheduled(t)
    /\ IF LoadRaises
       THEN tasks' = Finish(t) /\ running' = NoTask
       ELSE /\ tasks' = [tasks EXCEPT ![t].pc = "append", ![t].db = load_scores]
            /\ running' = AfterLoad(t)
    /\ UNCHANGED <<scores_file, processed_messages, clock, image, hist>>

\* lines 119-126: the first clock read is the event's ts
AppendStep(t) ==
    /\ t \in MsgTasks
    /\ tasks[t].pc = "append"
    /\ Scheduled(t)
    /\ tasks' = [tasks EXCEPT ![t].pc = "dates",
                              ![t].db = AppendEvent(@, str(Msg(t[2]).author), tasks[t].score, utcnow)]
    /\ running' = t
    /\ UNCHANGED <<scores_file, processed_messages, clock, image, hist>>

\* lines 127-129: the second clock read is the date
DatesStep(t) ==
    /\ t \in MsgTasks
    /\ tasks[t].pc = "dates"
    /\ Scheduled(t)
    /\ tasks' = [tasks EXCEPT ![t].pc = "save",
                              ![t].db = AddDate(@, str(Msg(t[2]).author), utcnow)]
    /\ running' = t
    /\ UNCHANGED <<scores_file, processed_messages, clock, image, hist>>

\* lines 131 and 252: after save_scores the reply is awaited
Committed(t) ==
    /\ running' = NoTask
    /\ IF t[1] = "msg"
       THEN /\ tasks' = [tasks EXCEPT ![t].pc = "reply2",
                                      ![t].out = [NoOut EXCEPT !.kind = "score", !.num = tasks[t].score, !.den = 1]]
            /\ recorded' = [recorded EXCEPT ![t[2]] = @ + 1]
            /\ live' = [live EXCEPT ![Msg(t[2]).author] = @ + 1]
       ELSE /\ tasks' = [tasks EXCEPT ![t].pc = "reply",
                                      ![t].out = [NoOut EXCEPT !.kind = "cleared"]]
            /\ recorded' = recorded
            /\ live' = [live EXCEPT ![t[2]] = 0]
    /\ UNCHANGED <<processed_messages, clock, image, boots, scored, skipped>>

\* lines 130 and 251: save_scores, when nothing stops it
Save(t) ==
    /\ t \in Live
    /\ tasks[t].pc = "save"
    /\ Scheduled(t)
    /\ scores_file' = save_scores(tasks[t].db)
    /\ Committed(t)

\* line 48: open(SCORES_FILE, "w") truncates the file
SaveOpen(t) ==
    /\ t \in Live
    /\ tasks[t].pc = "save"
    /\ Scheduled(t)
    /\ scores_file' = truncated
    /\ tasks' = [tasks EXCEPT ![t].pc = "dump"]
    /\ running' = t
    /\ UNCHANGED <<processed_messages, clock, image, hist>>

\* line 48: json.dump writes the whole document
SaveDump(t) ==
    /\ t \in Live
    /\ tasks[t].pc = "dump"
    /\ Scheduled(t)
    /\ scores_file' = save_scores(tasks[t].db)
    /\ Committed(t)

\* line 48: json.dump raises part-way (the disk is full); the handler ends
DumpFails(t) ==
    /\ t \in Live
    /\ tasks[t].pc = "dump"
    /\ Scheduled(t)
    /\ tasks' = Finish(t)
    /\ running' = NoTask
    /\ UNCHANGED <<scores_file, processed_messages, clock, image, hist>>

\* lines 116-117, 131 and the replies of the commands: the last reply is
\* sent and the coroutine ends
Done(t) ==
    /\ t \in Live
    /\ tasks[t].pc \in {"reply2", "errreply", "reply"}
    /\ Scheduled(t)
    /\ tasks' = Finish(t)
    /\ running' = NoTask
    /\ UNCHANGED <<scores_file, processed_messages, clock, image, hist>>

\* faulty variant: the set of processed ids outlives the process
RestartKeepsGuard ==
    /\ boots < MaxBoots
    /\ boots' = boots + 1
    /\ tasks' = [x \in {} |-> NewTask("")]
    /\ running' = NoTask
    /\ scored' = [m \in MsgIds |-> 0]
    /\ recorded' = [m \in MsgIds |-> 0]
    /\ skipped' = {}
    /\ UNCHANGED <<scores_file, processed_messages, clock, image, live>>

\* lines 256-259 after the process stopped: the module is loaded again
Restart ==
    /\ boots < MaxBoots
    /\ boots' = boots + 1
    /\ processed_messages' = {}
    /\ tasks' = [x \in {} |-> NewTask("")]
    /\ running' = NoTask
    /\ scored' = [m \in MsgIds |-> 0]
    /\ recorded' = [m \in MsgIds |-> 0]
    /\ skipped' = {}
    /\ UNCHANGED <<scores_file, clock, image, live>>

\* ------------------------------------------------------------- ind.reset
\* lines 246-247
ind_reset(u, cap) ==
    /\ running = NoTask
    /\ CmdTask("reset", u) \notin Live
    /\ Cardinality(Live) < cap
    /\ IF LoadRaises
       THEN UNCHANGED <<tasks, running>>
       ELSE /\ tasks' = Spawn(CmdTask("reset", u), [NewTask("reset") EXCEPT !.db = load_scores])
            /\ running' = AfterLoad(CmdTask("reset", u))
    /\ UNCHANGED <<scores_file, processed_messages, clock, image, hist>>

\* faulty variant: an unknown user gets the reply of a successful reset
ResetApplySameReply(t) ==
    /\ t \in ResetTasks
    /\ tasks[t].pc = "reset"
    /\ Scheduled(t)
    /\ IF HasUser(tasks[t].db, str(t[2]))
       THEN /\ tasks' = [tasks EXCEPT ![t].pc = "save", ![t].db = ResetDb(@, str(t[2]))]
            /\ running' = t
       ELSE /\ tasks' = [tasks EXCEPT ![t].pc = "reply",
                                      ![t].out = [NoOut EXCEPT !.kind = "cleared"]]
            /\ running' = NoTask
    /\ UNCHANGED <<scores_file, processed_messages, clock, image, hist>>

\* lines 248-250 and 253-254
ResetApply(t) ==
    /\ t \in ResetTasks
    /\ tasks[t].pc = "reset"
    /\ Scheduled(t)
    /\ IF HasUser(tasks[t].db, str(t[2]))
       THEN /\ tasks' = [tasks EXCEPT ![t].pc = "save", ![t].db = ResetDb(@, str(t[2]))]
            /\ running' = t
       ELSE /\ tasks' = [tasks EXCEPT ![t].pc = "reply",
                                      ![t].out = [NoOut EXCEPT !.kind = "nodata"]]
            /\ running' = NoTask
    /\ UNCHANGED <<scores_file, processed_messages, clock, image, hist>>

\* -------------------------------------------------------------- commands
\* A command handler loads the ledger, computes its reply from what it loaded
\* and awaits the reply: one step, then Done.
StartCmd(cmd, u, cap, st) ==
    /\ running = NoTask
    /\ CmdTask(cmd, u) \notin Live
    /\ Cardinality(Live) < cap
    /\ IF LoadRaises
       THEN UNCHANGED tasks
       ELSE tasks' = Spawn(CmdTask(cmd, u), st)
    /\ UNCHANGED <<scores_file, processed_messages, running, clock, image, hist>>

Replying(db, now, out) == [NewTask("reply") EXCEPT !.db = db, !.now = now, !.out = out]

\* lines 150-153: the reply of ind.avg
avg_reply(db, uid) ==
    IF ~HasUser(db, uid) \/ UserRec(db, uid).scores = <<>>
    THEN [NoOut EXCEPT !.kind = "noscores"]
    ELSE [NoOut EXCEPT !.kind = "avg",
                       !.num = SumSeq(UserRec(db, uid).scores),
                       !.den = Len(UserRec(db, uid).scores)]

\* lines 148-154
ind_avg(u, cap) ==
    StartCmd("avg", u, cap, Replying(load_scores, 0, avg_reply(load_scores, str(u))))

\* sorted(..., reverse=True) is stable: of two items with equal keys the one
\* that came first stays first.  GE(a, b): the key of a is at least that of b.
InsertAt(s, x, pos) == SubSeq(s, 1, pos) \o <<x>> \o SubSeq(s, pos + 1, Len(s))

Take(s, n) == SubSeq(s, 1, IF Len(s) < n THEN Len(s) ELSE n)

AvgGE(a, b) == a.num * b.den >= b.num * a.den

\* faulty variant: x goes before the entries that are equal to it
InsertByAvgUnstable(s, x) ==
    InsertAt(s, x, Cardinality({i \in 1..Len(s) : ~AvgGE(x, s[i])}))

\* lines 196-199 (and 159-162, 175-178): sorted by the average, descending
\* x goes behind the entries that are not smaller: the sort is stable
InsertByAvg(s, x) == InsertAt(s, x, Cardinality({i \in 1..Len(s) : AvgGE(s[i], x)}))

RECURSIVE SortedByAvg(_, _)
SortedByAvg(s, acc) ==
    IF s = <<>> THEN acc
    ELSE SortedByAvg(Tail(s), InsertByAvg(acc, Head(s)))

\* faulty variant: an event exactly seven days old counts
InWindowInclusive(ts, cutoff) == ts >= cutoff

\* line 194
InWindow(ts, cutoff) == ts > cutoff

\* line 195: recent.setdefault(user, []).append(score)
DictAppend(d, uid, score) ==
    IF \E i \in 1..Len(d) : d[i].uid = uid
    THEN [i \in 1..Len(d) |->
            IF d[i].uid = uid THEN [d[i] EXCEPT !.scores = Append(@, score)] ELSE d[i]]
    ELSE Append(d, [uid |-> uid, scores |-> <<score>>])

\* lines 191-195
RECURSIVE Recent(_, _, _)
Recent(imgs, cutoff, acc) ==
    IF imgs = <<>> THEN acc
    ELSE Recent(Tail(imgs), cutoff,
                IF InWindow(fromisoformat(Head(imgs).ts), cutoff)
                THEN DictAppend(acc, Head(imgs).user, Head(imgs).score)
                ELSE acc)

Averages(d) ==
    [i \in 1..Len(d) |-> [uid |-> d[i].uid, num |-> SumSeq(d[i].scores), den |-> Len(d[i].scores)]]

\* lines 189-199
week_board(db, now) ==
    Take(SortedByAvg(Averages(Recent(db.images, now - timedelta_days(WEEK_DAYS), <<>>)), <<>>),
         TOP_N)

\* lines 200-207
week_reply(db, now) ==
    IF week_board(db, now) = <<>>
    THEN [NoOut EXCEPT !.kind = "noactivity"]
    ELSE [NoOut EXCEPT !.kind = "week", !.board = week_board(db, now)]

\* lines 187-207
ind_week(cap) ==
    StartCmd("week", 0, cap, Replying(load_scores, utcnow, week_reply(load_scores, utcnow)))

IntGE(a, b) == a >= b

\* faulty variant: the dates are walked in the order they are stored
StoredOrder(dates) == dates

InsertDate(s, x) == InsertAt(s, x, Cardinality({i \in 1..Len(s) : IntGE(s[i], x)}))

RECURSIVE SortedDatesInto(_, _)
SortedDatesInto(s, acc) ==
    IF s = <<>> THEN acc
    ELSE SortedDatesInto(Tail(s), InsertDate(acc, Head(s)))

\* line 211: sorted(dates, reverse=True)
SortedDates(dates) == SortedDatesInto(dates, <<>>)

\* lines 214-219
RECURSIVE StreakLoop(_, _, _)
StreakLoop(dates, today, streak) ==
    IF dates = <<>> THEN streak
    ELSE IF Head(dates) = today
         THEN StreakLoop(Tail(dates), today - 1, streak + 1)
         ELSE streak

\* lines 211-223
streak_reply(db, uid, now) ==
    LET dates == SortedDates(IF HasUser(db, uid) THEN UserRec(db, uid).dates ELSE <<>>)
        streak == StreakLoop(dates, date_isoformat(now), 0)
    IN IF streak # 0
       THEN [NoOut EXCEPT !.kind = "streak", !.num = streak]
       ELSE [NoOut EXCEPT !.kind = "nostreak"]

\* lines 209-223
ind_streak(u, cap) ==
    StartCmd("streak", u, cap, Replying(load_scores, utcnow, streak_reply(load_scores, str(u), utcnow)))

\* ------------------------------------------------------ the leaderboards
\* lines 160 and 176: the users that have a score, in the order of the
\* users mapping, each with its average
UserAverages(db) == Averages(SelectSeq(db.users, LAMBDA u : u.scores # <<>>))

\* faulty variant: the users in the order of the mapping, not sorted
UnsortedBoard(db) == UserAverages(db)

\* lines 175-178
rank_board(db) == SortedByAvg(UserAverages(db), <<>>)

\* lines 159-162
top_board(db) == Take(rank_board(db), TOP_N)

OnBoard(board, uid) == \E i \in 1..Len(board) : board[i].uid = uid
\* line 183: uids.index(me) + 1
BoardIndex(board, uid) == CHOOSE i \in 1..Len(board) : board[i].uid = uid

\* lines 179-185
rank_reply(db, uid) ==
    LET board == rank_board(db)
    IN IF ~OnBoard(board, uid)
       THEN [NoOut EXCEPT !.kind = "notranked"]
       ELSE [NoOut EXCEPT !.kind = "rank",
                          !.pos = BoardIndex(board, uid),
                          !.num = board[BoardIndex(board, uid)].num,
                          !.den = board[BoardIndex(board, uid)].den]

\* lines 172-185
ind_rank(u, cap) ==
    StartCmd("rank", u, cap, Replying(load_scores, 0, rank_reply(load_scores, str(u))))

\* lines 163-170
top_reply(db) ==
    IF top_board(db) = <<>>
    THEN [NoOut EXCEPT !.kind = "nobody"]
    ELSE [NoOut EXCEPT !.kind = "top", !.board = top_board(db)]

\* lines 156-170
ind_top(cap) ==
    StartCmd("top", 0, cap, Replying(load_scores, 0, top_reply(load_scores)))

\* faulty variant: of two images with equal scores the later one goes first
InsertByScoreUnstable(s, x) ==
    InsertAt(s, x, Cardinality({i \in 1..Len(s) : s[i].score > x.score}))

\* line 235: sorted(imgs, key=lambda x: x["score"], reverse=True) is stable
InsertByScore(s, x) ==
    InsertAt(s, x, Cardinality({i \in 1..Len(s) : s[i].score >= x.score}))

RECURSIVE SortedByScore(_, _)
SortedByScore(s, acc) ==
    IF s = <<>> THEN acc
    ELSE SortedByScore(Tail(s), InsertByScore(acc, Head(s)))

\* line 235
top3_board(db) == Take(SortedByScore(db.images, <<>>), TOP_IMAGES)

\* lines 232-241
top3_reply(db) ==
    IF db.images = <<>>
    THEN [NoOut EXCEPT !.kind = "noimages"]
    ELSE [NoOut EXCEPT !.kind = "top3", !.board = top3_board(db)]

\* lines 230-241
ind_top3(cap) ==
    StartCmd("top3", 0, cap, Replying(load_scores, 0, top3_reply(load_scores)))

\* ------------------------------------------------------------- the clock
Tick(maxClock) ==
    /\ clock < maxClock
    /\ clock' = clock + 1
    /\ UNCHANGED <<scores_file, processed_messages, tasks, running, image, hist>>

\* a day passes
DayTick(maxDay) ==
    /\ clock + TicksPerDay <= maxDay * TicksPerDay
    /\ clock' = clock + TicksPerDay
    /\ UNCHANGED <<scores_file, processed_messages, tasks, running, image, hist>>

\* ------------------------------------------------- the specifications
\* Spec: handlers and resets interleave at their await points.
Next ==
    \/ \E m \in MsgIds : on_message(m, MaxTasks)
    \/ \E t \in Live : Gate(t)
    \/ \E t \in Live : AddProcessed(t)
    \/ \E t \in Live : Replied(t)
    \/ \E t \in Live : ScoreOk(t)
    \/ \E t \in Live : ScoreFail(t)
    \/ \E t \in Live : Load(t)
    \/ \E t \in Live : AppendStep(t)
    \/ \E t \in Live : DatesStep(t)
    \/ \E t \in Live : Save(t)
    \/ \E t \in Live : Done(t)
    \/ \E u \in AuthorIds : ind_reset(u, MaxTasks)
    \/ \E t \in Live : ResetApply(t)
    \/ Tick(MaxClock)

Spec == Init /\ [][Next]_vars

\* SpecSeq: one handler at a time, each message once in the order of the ids,
\* over a longer time and with the commands; the run may start from a
\* ledger an earlier lifetime left on disk and at any time of day 0.  Time
\* passes a day at a time, and
\* none while the reply of a command is on its way.
InitSeq ==
    /\ scores_file \in {[state |-> "absent", db |-> EmptyDb], save_scores(SeedDb)}
    /\ processed_messages = {}
    /\ tasks = [x \in {} |-> NewTask("")]
    /\ running = NoTask
    /\ clock \in 0..(TicksPerDay - 1)
    /\ image = NoImage
    /\ boots = 0
    /\ scored = [m \in MsgIds |-> 0]
    /\ recorded = [m \in MsgIds |-> 0]
    /\ skipped = {}
    /\ live = [u \in UserIds |->
                 Len(SelectSeq(load_scores.images, LAMBDA img : img.user = str(u)))]

\* m is the next message: the photos before it were accepted, and neither
\* it nor a later one was
InOrder(m) ==
    /\ \A k \in MsgIds : (k < m /\ Msg(k).image) => k \in processed_messages
    /\ \A k \in MsgIds : k >= m => k \notin processed_messages

SeqNext ==
    \/ \E m \in MsgIds : InOrder(m) /\ on_message(m, 1)
    \/ \E t \in Live : Gate(t)
    \/ \E t \in Live : AddProcessed(t)
    \/ \E t \in Live : Replied(t)
    \/ \E t \in Live : ScoreOk(t)
    \/ \E t \in Live : ScoreFail(t)
    \/ \E t \in Live : Load(t)
    \/ \E t \in Live : AppendStep(t)
    \/ \E t \in Live : DatesStep(t)
    \/ \E t \in Live : Save(t)
    \/ \E t \in Live : Done(t)
    \/ \E u \in {1, 3} : ind_reset(u, 1)
    \/ \E t \in Live : ResetApply(t)
    \/ \E u \in {1, 3} : ind_avg(u, 1)
    \/ \E u \in {1} : ind_streak(u, 1)
    \/ ind_week(1)
    \/ (Live \subseteq MsgTasks) /\ DayTick(SeqMaxDay)

SpecSeq == InitSeq /\ [][SeqNext]_vars

\* SpecCrash: one handler at a time; save_scores is the truncation followed
\* by the dump, the dump may fail and the process may stop and start again.
CrashNext ==
    \/ \E m \in {1, 2} : on_message(m, 1)
    \/ \E t \in Live : Gate(t)
    \/ \E t \in Live : AddProcessed(t)
    \/ \E t \in Live : Replied(t)
    \/ \E t \in Live : ScoreOk(t)
    \/ \E t \in Live : ScoreFail(t)
    \/ \E t \in Live : Load(t)
    \/ \E t \in Live : AppendStep(t)
    \/ \E t \in Live : DatesStep(t)
    \/ \E t \in Live : SaveOpen(t)
    \/ \E t \in Live : SaveDump(t)
    \/ \E t \in Live : DumpFails(t)
    \/ \E t \in Live : Done(t)
    \/ \E u \in {1} : ind_reset(u, 1)
    \/ \E t \in Live : ResetApply(t)
    \/ Restart
    \/ Tick(MaxClock)

SpecCrash == Init /\ [][CrashNext]_vars

\* SpecBoard: one handler at a time with the leaderboard commands, started
\* from a ledger an earlier lifetime left on disk: SeedDb, or TieDb, in
\* which user 1 posted a photo at tick 0 and user 3 one of the same score a
\* day later.
TieDb ==
    LET db1 == AddDate(AppendEvent(EmptyDb, str(1), score_image(1), 0), str(1), 0)
    IN AddDate(AppendEvent(db1, str(3), score_image(1), timedelta_days(1)),
               str(3), timedelta_days(1))

InitBoard ==
    /\ scores_file \in {save_scores(SeedDb), save_scores(TieDb)}
    /\ processed_messages = {}
    /\ tasks = [x \in {} |-> NewTask("")]
    /\ running = NoTask
    /\ clock = 0
    /\ image = NoImage
    /\ boots = 0
    /\ scored = [m \in MsgIds |-> 0]
    /\ recorded = [m \in MsgIds |-> 0]
    /\ skipped = {}
    /\ live = [u \in UserIds |->
                 Len(SelectSeq(load_scores.images, LAMBDA img : img.user = str(u)))]

BoardNext ==
    \/ \E m \in MsgIds : InOrder(m) /\ on_message(m, 1)
    \/ \E t \in Live : Gate(t)
    \/ \E t \in Live : AddProcessed(t)
    \/ \E t \in Live : Replied(t)
    \/ \E t \in Live : ScoreOk(t)
    \/ \E t \in Live : Load(t)
    \/ \E t \in Live : AppendStep(t)
    \/ \E t \in Live : DatesStep(t)
    \/ \E t \in Live : Save(t)
    \/ \E t \in Live : Done(t)
    \/ \E u \in {3} : ind_reset(u, 1)
    \/ \E t \in Live : ResetApply(t)
    \/ \E u \in {1, 3} : ind_rank(u, 1)
    \/ ind_top(1)
    \/ ind_top3(1)
    \/ ind_week(1)
    \/ (Live \subseteq MsgTasks) /\ DayTick(SeqMaxDay)

SpecBoard == InitBoard /\ [][BoardNext]_vars

\* SpecScore: an image is decoded and composition_score is applied to it.
ScoreNext == Decode \/ ComposeScore

SpecScore == Init /\ [][ScoreNext]_vars

\* SpecOrder: handlers and resets interleave at their await points, started
\* from a ledger in which user 3 has one photo.
OrderDb == Ingest(EmptyDb, <<3>>)

InitOrder ==
    /\ scores_file = save_scores(OrderDb)
    /\ processed_messages = {}
    /\ tasks = [x \in {} |-> NewTask("")]
    /\ running = NoTask
    /\ clock = 0
    /\ image = NoImage
    /\ boots = 0
    /\ scored = [m \in MsgIds |-> 0]
    /\ recorded = [m \in MsgIds |-> 0]
    /\ skipped = {}
    /\ live = [u \in UserIds |->
                 Len(SelectSeq(load_scores.images, LAMBDA img : img.user = str(u)))]

OrderNext ==
    \/ \E m \in {1, 2} : on_message(m, MaxTasks)
    \/ \E t \in Live : Gate(t)
    \/ \E t \in Live : AddProcessed(t)
    \/ \E t \in Live : Replied(t)
    \/ \E t \in Live : ScoreOk(t)
    \/ \E t \in Live : ScoreFail(t)
    \/ \E t \in Live : Load(t)
    \/ \E t \in Live : AppendStep(t)
    \/ \E t \in Live : DatesStep(t)
    \/ \E t \in Live : Save(t)
    \/ \E t \in Live : Done(t)
    \/ \E u \in {3} : ind_reset(u, MaxTasks)
    \/ \E t \in Live : ResetApply(t)
    \/ Tick(MaxClock)

SpecOrder == InitOrder /\ [][OrderNext]_vars

TypeOK ==
    /\ scores_file.state \in {"absent", "ok", "torn"}
    /\ processed_messages \subseteq MsgIds
    /\ running \in Live \cup {NoTask}
    /\ boots \in 0..MaxBoots

\* ================================================================ claims
TasksOf(m) == {t \in MsgTasks : t[2] = m}
PhotoMsgs == {m \in MsgIds : Msg(m).channel = PHOTOGRAPHY_CHANNEL_ID /\ Msg(m).image}
PastGate == {"add", "reply1", "scoring", "load", "append", "dates", "save", "reply2", "errreply"}
Critical == {"append", "dates", "save", "dump", "reset"}
Stored == load_scores

\* the scores of the images of uid, in the order of images
ScoresOfImages(db, uid) ==
    LET mine == SelectSeq(db.images, LAMBDA img : img.user = uid)
    IN [i \in 1..Len(mine) |-> mine[i].score]

UidsOf(db) == {db.users[i].uid : i \in 1..Len(db.users)}
    \cup {db.images[i].user : i \in 1..Len(db.images)}

\* C1: a message id is scored and recorded at most once in a process lifetime,
\* exactly once when its scoring succeeded and its handlers have ended; a
\* delivery that finds the id in processed_messages ends at that check and
\* leaves the file, the set and the score counts as they were.
C1_SkipStep ==
    \A t \in MsgTasks :
        (tasks[t].pc = "commands" /\ t[2] \in processed_messages /\ Gate(t)) =>
            /\ t \notin DOMAIN tasks'
            /\ scores_file' = scores_file
            /\ processed_messages' = processed_messages
            /\ scored' = scored
            /\ recorded' = recorded

C1_Once ==
    \A m \in PhotoMsgs :
        /\ scored[m] <= 1
        /\ recorded[m] <= 1
        /\ (scored[m] = 1 /\ TasksOf(m) = {}) => recorded[m] = 1

C1_Idempotent == C1_Once /\ [][C1_Once' /\ C1_SkipStep]_vars

C1_Witness ==
    \E m \in PhotoMsgs : m \in skipped /\ recorded[m] = 1 /\ TasksOf(m) = {}

\* C2: for every user of the stored ledger, users[u].scores is the sequence
\* of the scores of the images of u, in the order of images.
C2_LedgerConsistent ==
    \A uid \in UidsOf(Stored) :
        /\ HasUser(Stored, uid)
        /\ UserRec(Stored, uid).scores = ScoresOfImages(Stored, uid)

C2_Witness ==
    /\ Len(Stored.images) = 1
    /\ HasUser(Stored, str(1))
    /\ UserRec(Stored, str(1)).scores = <<4>>
    /\ recorded[1] = 1
    /\ recorded[2] = 1

\* C3: at most one coroutine is between its load_scores and its save_scores,
\* and it holds the event loop; so the stored ledger holds, for every user,
\* as many events as were saved for that user since the user's last reset.
ImagesOf(db, u) == Len(SelectSeq(db.images, LAMBDA img : img.user = str(u)))

C3_NoLostUpdate ==
    /\ \A t1, t2 \in Live :
          (tasks[t1].pc \in Critical /\ tasks[t2].pc \in Critical) => t1 = t2
    /\ \A t \in Live : tasks[t].pc \in Critical => running = t
    /\ \A u \in AuthorIds : ImagesOf(Stored, u) = live[u]

C3_Witness ==
    /\ Len(Stored.images) = 2
    /\ \E t1, t2 \in MsgTasks :
          /\ t1[2] # t2[2]
          /\ tasks[t1].pc = "reply2"
          /\ tasks[t2].pc = "reply2"

\* C4: the membership test and the insertion run with the loop held, every
\* handler past the test has its id in processed_messages, so of the handlers
\* of one message id at most one is past the test and at most one event is
\* recorded.
C4_NoDoubleScore ==
    /\ \A t \in MsgTasks : tasks[t].pc = "add" => running = t
    /\ \A t \in MsgTasks :
          tasks[t].pc \in (PastGate \ {"add"}) => t[2] \in processed_messages
    /\ \A m \in PhotoMsgs :
          /\ Cardinality({t \in TasksOf(m) : tasks[t].pc \in PastGate}) <= 1
          /\ recorded[m] <= 1

C4_Witness ==
    \E m \in PhotoMsgs : \E t1, t2 \in TasksOf(m) :
        /\ tasks[t1].pc = "commands"
        /\ tasks[t2].pc = "scoring"

\* C6: an event is recorded only for a scoring that succeeded; the step on
\* which score_image raises leaves the file and the set unchanged and goes to
\* the error reply, and the handler then ends without a load or a save.
C6_FailStep ==
    \A t \in MsgTasks :
        (tasks[t].pc = "scoring" /\ ScoreFail(t)) =>
            /\ scores_file' = scores_file
            /\ recorded' = recorded
            /\ tasks'[t].pc = "errreply"
            /\ tasks'[t].out.kind = "error"

C6_NoRecord ==
    /\ \A m \in PhotoMsgs : recorded[m] <= scored[m]
    /\ \A t \in MsgTasks : tasks[t].pc = "errreply" =>
          /\ tasks[t].db = EmptyDb
          /\ scored[t[2]] = 0
          /\ recorded[t[2]] = 0

C6_FailedNotRecorded == C6_NoRecord /\ [][C6_NoRecord' /\ C6_FailStep]_vars

C6_Witness ==
    \E m \in PhotoMsgs :
        /\ m \in processed_messages
        /\ TasksOf(m) = {}
        /\ scored[m] = 0
        /\ recorded[m] = 0
        /\ Len(Stored.images) = 1

\* C7: the date of every stored event is among the dates of its user, and no
\* date is stored twice.
DatesUnique(db) ==
    \A i \in 1..Len(db.users) :
        \A j, k \in 1..Len(db.users[i].dates) :
            db.users[i].dates[j] = db.users[i].dates[k] => j = k

EventDatesKept(db) ==
    \A i \in 1..Len(db.images) :
        /\ HasUser(db, db.images[i].user)
        /\ InSeq(db.images[i].ts.date, UserRec(db, db.images[i].user).dates)

C7_ActiveDates == EventDatesKept(Stored) /\ DatesUnique(Stored)

\* C5: the save of a reset of a user that has a users entry stores a ledger
\* with no image and no users entry of that user, for which ind.avg answers
\* "no scores"; and as long as no event of a user was saved since (the user's
\* reset or the start), ind.avg answers that user "no scores".
C5_ResetStep ==
    \A t \in ResetTasks :
        (tasks[t].pc = "save" /\ Save(t)) =>
            /\ scores_file'.state = "ok"
            /\ ~HasUser(scores_file'.db, str(t[2]))
            /\ \A i \in 1..Len(scores_file'.db.images) :
                   scores_file'.db.images[i].user # str(t[2])
            /\ avg_reply(scores_file'.db, str(t[2])).kind = "noscores"
            /\ tasks'[t].out.kind = "cleared"

C5_NoData ==
    /\ \A u \in UserIds : live[u] = 0 => avg_reply(Stored, str(u)).kind = "noscores"
    /\ \A t \in Live : (t[1] = "avg" /\ live[t[2]] = 0) => tasks[t].out.kind = "noscores"

C5_ResetClears == C5_NoData /\ [][C5_NoData' /\ C5_ResetStep]_vars

C5_Witness ==
    /\ CmdTask("avg", 1) \in Live
    /\ tasks[CmdTask("avg", 1)].out.kind = "noscores"
    /\ recorded[1] = 1
    /\ live[1] = 0

\* C8: the file is absent or holds a complete ledger, the one before the
\* save or the one after it.
C8_AtomicReplace == scores_file.state \in {"absent", "ok"}

\* C9: the streak ind.streak answers is the largest k such that the k dates
\* today, today-1, ..., today-(k-1) are all among the dates of the user; 0
\* for a user with no record.
DateSet(db, uid) ==
    IF HasUser(db, uid)
    THEN {UserRec(db, uid).dates[i] : i \in 1..Len(UserRec(db, uid).dates)}
    ELSE {}

Run(D, today, k) == \A i \in 0..(k - 1) : (today - i) \in D

LongestRun(D, today) ==
    CHOOSE k \in 0..Cardinality(D) :
        /\ Run(D, today, k)
        /\ \A j \in 0..Cardinality(D) : Run(D, today, j) => j <= k

StreakOf(out) == IF out.kind = "streak" THEN out.num ELSE 0

C9_Streak ==
    /\ \A u \in UserIds :
          StreakOf(streak_reply(Stored, str(u), clock))
              = LongestRun(DateSet(Stored, str(u)), date_isoformat(clock))
    /\ \A t \in Live : t[1] = "streak" =>
          /\ tasks[t].out.kind \in {"streak", "nostreak"}
          /\ StreakOf(tasks[t].out)
                 = LongestRun(DateSet(tasks[t].db, str(t[2])), date_isoformat(tasks[t].now))

C9_Witness ==
    \E t \in Live :
        /\ t[1] = "streak"
        /\ tasks[t].out.kind = "streak"
        /\ tasks[t].out.num = 2
        /\ Cardinality(DateSet(tasks[t].db, str(t[2]))) = 2

\* C10: the users of the weekly board and their averages.
WindowIdx(db, now) ==
    {i \in 1..Len(db.images) :
        fromisoformat(db.images[i].ts) > now - timedelta_days(WEEK_DAYS)}

WindowUsers(db, now) == {db.images[i].user : i \in WindowIdx(db, now)}

RECURSIVE SumOver(_, _)
SumOver(db, I) ==
    IF I = {} THEN 0
    ELSE LET i == CHOOSE j \in I : TRUE
         IN db.images[i].score + SumOver(db, I \ {i})

WindowSum(db, now, uid) ==
    SumOver(db, {i \in WindowIdx(db, now) : db.images[i].user = uid})
WindowCount(db, now, uid) ==
    Cardinality({i \in WindowIdx(db, now) : db.images[i].user = uid})

BoardUsers(board) == {board[i].uid : i \in 1..Len(board)}

BoardMeans(board, db, now) ==
    \A i \in 1..Len(board) :
        /\ board[i].num = WindowSum(db, now, board[i].uid)
        /\ board[i].den = WindowCount(db, now, board[i].uid)

\* the claim as made: the board lists exactly the users of the window
BoardIsWindow(board, db, now) ==
    /\ BoardUsers(board) = WindowUsers(db, now)
    /\ BoardMeans(board, db, now)

C10_WeekMembership ==
    /\ BoardIsWindow(week_board(Stored, clock), Stored, clock)
    /\ \A t \in Live : t[1] = "week" =>
          BoardIsWindow(tasks[t].out.board, tasks[t].db, tasks[t].now)

\* C10 as amended: the board lists only users of the window, each once and
\* with the mean of the scores of the window; it lists all of them when they
\* are at most TOP_N, and otherwise TOP_N of them, none of which has a
\* smaller mean than one left out.
BoardOfWindow(board, db, now) ==
    /\ BoardUsers(board) \subseteq WindowUsers(db, now)
    /\ Cardinality(BoardUsers(board)) = Len(board)
    /\ BoardMeans(board, db, now)
    /\ Len(board) = IF Cardinality(WindowUsers(db, now)) <= TOP_N
                    THEN Cardinality(WindowUsers(db, now)) ELSE TOP_N
    /\ \A u \in WindowUsers(db, now) \ BoardUsers(board) :
          \A i \in 1..Len(board) :
              board[i].num * WindowCount(db, now, u) >= WindowSum(db, now, u) * board[i].den

C10_WeekTopOfWindow ==
    /\ BoardOfWindow(week_board(Stored, clock), Stored, clock)
    /\ \A t \in Live : t[1] = "week" =>
          /\ BoardOfWindow(tasks[t].out.board, tasks[t].db, tasks[t].now)
          /\ (tasks[t].out.kind = "noactivity") = (WindowUsers(tasks[t].db, tasks[t].now) = {})

C10_Witness ==
    \E t \in Live :
        /\ t[1] = "week"
        /\ tasks[t].out.kind = "week"
        /\ \E i \in 1..Len(tasks[t].db.images) :
              /\ fromisoformat(tasks[t].db.images[i].ts)
                     = tasks[t].now - timedelta_days(WEEK_DAYS)
              /\ tasks[t].db.images[i].user \notin BoardUsers(tasks[t].out.board)

\* C11: the weekly board is in descending order of the window average.
Mean(e) == [num |-> e.num, den |-> e.den]
MeanGT(a, b) == a.num * b.den > b.num * a.den
MeanEQ(a, b) == a.num * b.den = b.num * a.den

\* the first event of uid inside the window, as an index of images
FirstInWindow(db, now, uid) ==
    CHOOSE i \in WindowIdx(db, now) :
        /\ db.images[i].user = uid
        /\ \A j \in WindowIdx(db, now) : db.images[j].user = uid => i <= j

\* the claim as made: equal averages in the order of the users mapping
WeekOrderByUsers(board, db) ==
    \A i, j \in 1..Len(board) : i < j =>
        \/ MeanGT(board[i], board[j])
        \/ /\ MeanEQ(board[i], board[j])
           /\ UserIdx(db, board[i].uid) < UserIdx(db, board[j].uid)

C11_WeekTiesByUsers ==
    /\ WeekOrderByUsers(week_board(Stored, clock), Stored)
    /\ \A t \in Live : t[1] = "week" => WeekOrderByUsers(tasks[t].out.board, tasks[t].db)

\* C11 as amended: the weekly board is in descending order of the window
\* average, and users with equal window averages are in the order of their
\* first events inside the window.
WeekOrderByFirstEvent(board, db, now) ==
    \A i, j \in 1..Len(board) : i < j =>
        \/ MeanGT(board[i], board[j])
        \/ /\ MeanEQ(board[i], board[j])
           /\ FirstInWindow(db, now, board[i].uid) < FirstInWindow(db, now, board[j].uid)

C11_WeekTiesByFirstEvent ==
    /\ WeekOrderByFirstEvent(week_board(Stored, clock), Stored, clock)
    /\ \A t \in Live : t[1] = "week" =>
          WeekOrderByFirstEvent(tasks[t].out.board, tasks[t].db, tasks[t].now)

C11_Witness ==
    \E t \in Live :
        /\ t[1] = "week"
        /\ \E i, j \in 1..Len(tasks[t].out.board) :
              /\ i < j
              /\ MeanEQ(tasks[t].out.board[i], tasks[t].out.board[j])
              /\ UserIdx(tasks[t].db, tasks[t].out.board[i].uid)
                     > UserIdx(tasks[t].db, tasks[t].out.board[j].uid)

\* C12: ind.rank answers "not ranked" exactly to a user without a record or
\* without scores; otherwise the position it answers is 1 plus the number of
\* users with a score that have a greater average, or an equal average and
\* an earlier place in the users mapping; ind.top lists the users of the
\* positions 1 to 5, in that order, with their averages.
HasScores(db, uid) == HasUser(db, uid) /\ UserRec(db, uid).scores # <<>>
Ranked(db) == {db.users[i].uid : i \in {j \in 1..Len(db.users) : db.users[j].scores # <<>>}}
AvgOf(db, uid) ==
    [num |-> SumSeq(UserRec(db, uid).scores), den |-> Len(UserRec(db, uid).scores)]

RankOf(db, uid) ==
    1 + Cardinality({v \in Ranked(db) :
            \/ MeanGT(AvgOf(db, v), AvgOf(db, uid))
            \/ /\ MeanEQ(AvgOf(db, v), AvgOf(db, uid))
               /\ UserIdx(db, v) < UserIdx(db, uid)})

RankIs(out, db, uid) ==
    IF HasScores(db, uid)
    THEN /\ out.kind = "rank"
         /\ out.pos = RankOf(db, uid)
         /\ Mean(out) = AvgOf(db, uid)
    ELSE out.kind = "notranked"

TopIs(out, db) ==
    /\ (out.kind = "nobody") = (Ranked(db) = {})
    /\ out.kind \in {"nobody", "top"}
    /\ Len(out.board) = IF Cardinality(Ranked(db)) < TOP_N
                         THEN Cardinality(Ranked(db)) ELSE TOP_N
    /\ \A i \in 1..Len(out.board) :
          /\ HasScores(db, out.board[i].uid)
          /\ RankOf(db, out.board[i].uid) = i
          /\ Mean(out.board[i]) = AvgOf(db, out.board[i].uid)

C12_RankAndTop ==
    /\ \A u \in UserIds : RankIs(rank_reply(Stored, str(u)), Stored, str(u))
    /\ TopIs(top_reply(Stored), Stored)
    /\ \A t \in Live :
          /\ t[1] = "rank" => RankIs(tasks[t].out, tasks[t].db, str(t[2]))
          /\ t[1] = "top" => TopIs(tasks[t].out, tasks[t].db)

\* user 1 has the average of five earlier users and is ranked behind them,
\* and is not among the top five
C12_Witness ==
    /\ CmdTask("rank", 1) \in Live
    /\ tasks[CmdTask("rank", 1)].out.kind = "rank"
    /\ tasks[CmdTask("rank", 1)].out.pos = TOP_N + 1
    /\ MeanEQ(tasks[CmdTask("rank", 1)].out, AvgOf(Stored, str(3)))
    /\ ~OnBoard(top_board(Stored), str(1))

\* C13: ind.top3 lists the entries of images that have fewer than three
\* entries before them in the order "greater score first, and of equal
\* scores the earlier entry of images first", in that order; all entries
\* when there are fewer than three.
ImgRank(db, i) ==
    1 + Cardinality({j \in 1..Len(db.images) :
            \/ db.images[j].score > db.images[i].score
            \/ /\ db.images[j].score = db.images[i].score
               /\ j < i})

Top3Is(out, db) ==
    /\ (out.kind = "noimages") = (db.images = <<>>)
    /\ out.kind \in {"noimages", "top3"}
    /\ Len(out.board) = IF Len(db.images) < TOP_IMAGES THEN Len(db.images) ELSE TOP_IMAGES
    /\ \A k \in 1..Len(out.board) :
          \E i \in 1..Len(db.images) :
              /\ ImgRank(db, i) = k
              /\ out.board[k] = db.images[i]

C13_TopImages ==
    /\ Top3Is(top3_reply(Stored), Stored)
    /\ \A t \in Live : t[1] = "top3" => Top3Is(tasks[t].out, tasks[t].db)

\* the last image stored has the highest score and is listed first; the two
\* behind it have equal scores
C13_Witness ==
    \E t \in Live :
        /\ t[1] = "top3"
        /\ Len(tasks[t].db.images) > TOP_IMAGES
        /\ Len(tasks[t].out.board) = TOP_IMAGES
        /\ tasks[t].out.board[1] = tasks[t].db.images[Len(tasks[t].db.images)]
        /\ tasks[t].out.board[2].score = tasks[t].out.board[3].score
        /\ tasks[t].out.board[2] = tasks[t].db.images[1]

\* C14: a reset of a user without a users entry saves nothing, leaves the
\* file as it is and answers "no data found", which a successful reset never
\* answers; the ledger a reset leaves has no entry of the user, so a second
\* reset in a row leaves the ledger of the first.
ResetLedger(db, uid) == IF HasUser(db, uid) THEN ResetDb(db, uid) ELSE db

C14_UnknownStep ==
    \A t \in ResetTasks :
        (tasks[t].pc = "reset" /\ ResetApply(t)) =>
            /\ scores_file' = scores_file
            /\ processed_messages' = processed_messages
            /\ IF HasUser(tasks[t].db, str(t[2]))
               THEN tasks'[t].pc = "save"
               ELSE /\ tasks'[t].pc = "reply"
                    /\ tasks'[t].out.kind = "nodata"
                    /\ tasks'[t].db = scores_file.db

C14_Replies ==
    /\ \A t \in ResetTasks : tasks[t].pc = "reply" =>
          /\ tasks[t].out.kind \in {"nodata", "cleared"}
          /\ ~HasUser(Stored, str(t[2]))
          /\ tasks[t].db = Stored
    /\ \A u \in UserIds :
          /\ ~HasUser(ResetLedger(Stored, str(u)), str(u))
          /\ ResetLedger(ResetLedger(Stored, str(u)), str(u)) = ResetLedger(Stored, str(u))

C14_ResetIdempotent == []C14_Replies /\ [][C14_UnknownStep]_vars

\* user 1 was recorded and reset, and a second reset answers "no data found"
C14_Witness ==
    /\ CmdTask("reset", 1) \in Live
    /\ tasks[CmdTask("reset", 1)].out.kind = "nodata"
    /\ recorded[1] = 1
    /\ live[1] = 0
    /\ scores_file.state = "ok"

\* C15: the score of an image is at least 0 and at most 10; it is 5 when
\* the total edge energy is zero, and 10 when the energy-weighted centroid
\* is one of the four rule-of-thirds points.
OnThirdsPoint(img) ==
    \E kx \in {1, 2}, ky \in {1, 2} :
        /\ 3 * WeightedSum(img.arr, DOMAIN img.arr, 1) = kx * img.w * total(img)
        /\ 3 * WeightedSum(img.arr, DOMAIN img.arr, 2) = ky * img.h * total(img)

C15_ScoreBounded ==
    image.done =>
        /\ 0 <= image.score
        /\ image.score <= 10 * SCORE_UNIT
        /\ total(image) = 0 => image.score = 5 * SCORE_UNIT
        /\ (total(image) > 0 /\ OnThirdsPoint(image)) => image.score = 10 * SCORE_UNIT

\* two pixels of different energies whose centroid is a thirds point
C15_Witness ==
    /\ image.done
    /\ total(image) > 0
    /\ OnThirdsPoint(image)
    /\ Cardinality({p \in DOMAIN image.arr : image.arr[p] > 0}) = 2
    /\ image.score = 10 * SCORE_UNIT

\* C16: the ts of the entries of the stored images never decrease along the
\* list, and the save of a reset stores the entries of the other users in
\* the order they had.
Chronological(db) ==
    \A i, j \in 1..Len(db.images) :
        i < j => fromisoformat(db.images[i].ts) <= fromisoformat(db.images[j].ts)

KeptIdx(db, uid) == {i \in 1..Len(db.images) : db.images[i].user # uid}
\* the k-th entry of images that is not of uid
KthKept(db, uid, k) ==
    CHOOSE i \in KeptIdx(db, uid) : Cardinality({j \in KeptIdx(db, uid) : j <= i}) = k

OrderKept(old, new, uid) ==
    /\ Len(new.images) = Cardinality(KeptIdx(old, uid))
    /\ \A k \in 1..Len(new.images) : new.images[k] = old.images[KthKept(old, uid, k)]

C16_ResetKeepsOrder ==
    \A t \in ResetTasks :
        (tasks[t].pc = "save" /\ Save(t)) =>
            OrderKept(scores_file.db, scores_file'.db, str(t[2]))

C16_Chronological ==
    Chronological(Stored) /\ [][Chronological(Stored)' /\ C16_ResetKeepsOrder]_vars

\* two handlers are alive at once, both have saved their events, and the
\* three stored events have two different ts
C16_Witness ==
    /\ Len(Stored.images) = 3
    /\ fromisoformat(Stored.images[2].ts) < fromisoformat(Stored.images[3].ts)
    /\ \E t1, t2 \in MsgTasks :
          /\ t1[2] # t2[2]
          /\ tasks[t1].pc = "reply2"
          /\ tasks[t2].pc = "reply2"

\* C17: a restart empties processed_messages and leaves the file as it is;
\* a delivery of a photo whose id is not in processed_messages is not skipped
\* but goes on to be scored, also when an event of that id is in the file.
EventsOfMsg(db, m) ==
    Len(SelectSeq(db.images, LAMBDA img :
            img.user = str(Msg(m).author) /\ img.score = score_image(m)))

C17_RestartStep ==
    boots' # boots =>
        /\ processed_messages' = {}
        /\ scores_file' = scores_file
        /\ load_scores' = load_scores

C17_NotSkipped ==
    \A t \in MsgTasks :
        (/\ tasks[t].pc = "commands"
         /\ t[2] \in PhotoMsgs
         /\ t[2] \notin processed_messages
         /\ Gate(t)) =>
            /\ t \in DOMAIN tasks'
            /\ tasks'[t].pc = "add"
            /\ skipped' = skipped

C17_GuardLostOnRestart == [][C17_RestartStep /\ C17_NotSkipped]_vars

\* after a restart the photo of message 1, recorded before it, has been
\* scored and recorded again: the file holds two events of it
C17_Witness ==
    /\ boots = 1
    /\ scored[1] = 1
    /\ recorded[1] = 1
    /\ scores_file.state = "ok"
    /\ EventsOfMsg(Stored, 1) = 2

\* C18: the id of a submission is in processed_messages when its scoring
\* fails and stays there for the lifetime of the process; from the failure
\* on, every delivery of the id ends at the check of processed_messages, no
\* handler of the id scores, and no event of the id is recorded.
GivenUp(m) ==
    /\ m \in processed_messages
    /\ scored[m] = 0
    /\ recorded[m] = 0
    /\ \A t \in TasksOf(m) : tasks[t].pc \in {"commands", "errreply"}

C18_FailStep ==
    \A t \in MsgTasks :
        (tasks[t].pc = "scoring" /\ ScoreFail(t)) => GivenUp(t[2])'

C18_Stays == \A m \in PhotoMsgs : GivenUp(m) => GivenUp(m)'

C18_SkipStep ==
    \A t \in MsgTasks :
        (tasks[t].pc = "commands" /\ GivenUp(t[2]) /\ Gate(t)) =>
            /\ t \notin DOMAIN tasks'
            /\ t[2] \in skipped'
            /\ scores_file' = scores_file

C18_NeverRetried == [][C18_FailStep /\ C18_Stays /\ C18_SkipStep]_vars

\* the scoring of a photo failed, a later delivery of it was skipped, and
\* nothing of it is recorded
C18_Witness ==
    \E m \in PhotoMsgs :
        /\ GivenUp(m)
        /\ m \in skipped
        /\ TasksOf(m) = {}
        /\ EventsOfMsg(Stored, m) = 0

\* C19: in the stored ledger a uid is a key of users exactly when images
\* has an entry of the uid, and the scores and the dates of every users
\* entry are non-empty; so ind.avg answers "no scores" exactly to the users
\* without an entry.
ImageUsers(db) == {db.images[i].user : i \in 1..Len(db.images)}
UserKeys(db) == {db.users[i].uid : i \in 1..Len(db.users)}

RecordsIffEvents(db) ==
    /\ UserKeys(db) = ImageUsers(db)
    /\ \A i \in 1..Len(db.users) :
          /\ db.users[i].scores # <<>>
          /\ db.users[i].dates # <<>>
    /\ \A i, j \in 1..Len(db.users) : db.users[i].uid = db.users[j].uid => i = j

C19_UserIffEvents ==
    /\ RecordsIffEvents(Stored)
    /\ \A u \in UserIds :
          (avg_reply(Stored, str(u)).kind = "noscores") = (str(u) \notin UserKeys(Stored))
    /\ \A t \in Live : t[1] = "avg" =>
          (tasks[t].out.kind = "noscores") = (str(t[2]) \notin UserKeys(tasks[t].db))

\* user 1 has two events, user 3 was reset, and ind.avg answers user 3
\* "no scores"
C19_Witness ==
    /\ scores_file.state = "ok"
    /\ HasUser(Stored, str(1))
    /\ Len(UserRec(Stored, str(1)).scores) = 2
    /\ str(3) \notin UserKeys(Stored)
    /\ str(4) \in UserKeys(Stored)
    /\ CmdTask("avg", 3) \in Live
    /\ tasks[CmdTask("avg", 3)].out.kind = "noscores"

\* C20: the save of a reset of uid stores a ledger in which every other
\* user has the users entry it had, and images holds the entries of the
\* other users, the same and in the same order; no step of a reset changes
\* processed_messages, and none but its save changes the file.
OthersKept(old, new, uid) ==
    /\ UserKeys(new) = UserKeys(old) \ {uid}
    /\ \A v \in UserKeys(old) \ {uid} : UserRec(new, v) = UserRec(old, v)
    /\ OrderKept(old, new, uid)

C20_SaveStep ==
    \A t \in ResetTasks :
        (tasks[t].pc = "save" /\ Save(t)) =>
            /\ OthersKept(scores_file.db, scores_file'.db, str(t[2]))
            /\ processed_messages' = processed_messages

C20_OtherSteps ==
    /\ \A u \in UserIds : ind_reset(u, 1) =>
          scores_file' = scores_file /\ processed_messages' = processed_messages
    /\ \A t \in ResetTasks : (tasks[t].pc \in {"reset", "reply"} /\ (ResetApply(t) \/ Done(t))) =>
          scores_file' = scores_file /\ processed_messages' = processed_messages

C20_ResetFrame == [][C20_SaveStep /\ C20_OtherSteps]_vars

\* user 3 was reset after user 1 posted: user 1 and the users 4 to 7 keep
\* their entries and events, and the id of the photo stays processed
C20_Witness ==
    /\ CmdTask("reset", 3) \in Live
    /\ tasks[CmdTask("reset", 3)].out.kind = "cleared"
    /\ 1 \in processed_messages
    /\ UserKeys(Stored) = {str(1), str(4), str(5), str(6), str(7)}
    /\ Len(Stored.images) = 5
    /\ Stored.images[5].user = str(1)

====
